---------------------------- MODULE Spec2Model ----------------------------
(***************************************************************************)
(* A model of install_wezterm.py: platform detection, catalogue lookup,    *)
(* download and installation with cleanup, the confirmation prompt and the *)
(* optional font / configuration phase.                                    *)
(*                                                                         *)
(* Text is modelled as a sequence of one-character strings so that the     *)
(* string operations of the script (strip, split, capitalize, lower) are   *)
(* computed rather than assumed.  A URL is a sequence of tokens: the       *)
(* directory part, "/" separators, the stem of the last segment and its    *)
(* suffix.  Python's None is the text None below, which no real text       *)
(* equals.                                                                 *)
(***************************************************************************)
EXTENDS Integers, Sequences, FiniteSets, TLC

None == <<"<None>">>

\* ---------------------------------------------------------------- bounds
\* Number of times the script is run on the same host.
MaxRuns == 2

\* ------------------------------------------------------- text operations
Whitespace == {" ", "\n", "\t", "\r"}

UpperChars ==
  <<"A", "B", "C", "D", "E", "F", "G", "H", "I", "J", "K", "L", "M",
    "N", "O", "P", "Q", "R", "S", "T", "U", "V", "W", "X", "Y", "Z">>

LowerChars ==
  <<"a", "b", "c", "d", "e", "f", "g", "h", "i", "j", "k", "l", "m",
    "n", "o", "p", "q", "r", "s", "t", "u", "v", "w", "x", "y", "z">>

SetMin(S) == CHOOSE x \in S : \A y \in S : x <= y

SetMax(S) == CHOOSE x \in S : \A y \in S : x >= y

char_lower(c) ==
  IF \E i \in 1..26 : UpperChars[i] = c
  THEN LowerChars[CHOOSE i \in 1..26 : UpperChars[i] = c]
  ELSE c

char_upper(c) ==
  IF \E i \in 1..26 : LowerChars[i] = c
  THEN UpperChars[CHOOSE i \in 1..26 : LowerChars[i] = c]
  ELSE c

\* str.lower()
str_lower(s) == [i \in 1..Len(s) |-> char_lower(s[i])]

\* str.capitalize(): first character upper-cased, the rest lower-cased
str_capitalize(s) ==
  [i \in 1..Len(s) |-> IF i = 1 THEN char_upper(s[i]) ELSE char_lower(s[i])]

\* str.strip(chars): drop leading and trailing characters of the set
str_strip(s, chars) ==
  LET keep == {i \in 1..Len(s) : s[i] \notin chars}
  IN  IF keep = {} THEN <<>> ELSE SubSeq(s, SetMin(keep), SetMax(keep))

\* "c in s"
str_contains(s, c) == \E i \in 1..Len(s) : s[i] = c

\* index of the first occurrence of c in s, 0 when there is none
str_find(s, c) ==
  IF str_contains(s, c) THEN SetMin({i \in 1..Len(s) : s[i] = c}) ELSE 0

\* s.split(c, 1): at most one split, at the first occurrence of c
str_split1(s, c) ==
  LET i == str_find(s, c)
  IN  IF i = 0 THEN <<s>>
      ELSE <<SubSeq(s, 1, i - 1), SubSeq(s, i + 1, Len(s))>>

\* s.split(c)[0]: the part before the first occurrence of c
str_split_head(s, c) ==
  LET i == str_find(s, c)
  IN  IF i = 0 THEN s ELSE SubSeq(s, 1, i - 1)

\* s.endswith(suffix) on token sequences
str_endswith(s, suffix) ==
  /\ Len(s) >= Len(suffix)
  /\ SubSeq(s, Len(s) - Len(suffix) + 1, Len(s)) = suffix

\* dict.get(k, default)
dict_get(d, k, default) == IF k \in DOMAIN d THEN d[k] ELSE default

EmptyDict == [k \in {} |-> k]

\* "not x" for a text or URL that may be None or empty
Falsy(x) == x = None \/ x = <<>>

\* ------------------------------------------------------------- constants
T_macos == <<"m", "a", "c", "o", "s">>
T_Ubuntu == <<"U", "b", "u", "n", "t", "u">>
T_Debian == <<"D", "e", "b", "i", "a", "n">>
T_Linux == <<"L", "i", "n", "u", "x">>
T_Darwin == <<"D", "a", "r", "w", "i", "n">>
T_Windows == <<"W", "i", "n", "d", "o", "w", "s">>
T_amd64 == <<"a", "m", "d", "6", "4">>
T_arm64 == <<"a", "r", "m", "6", "4">>
T_ID == <<"I", "D">>
T_VERSION_ID == <<"V", "E", "R", "S", "I", "O", "N", "_", "I", "D">>
V22 == <<"2", "2">>
V20 == <<"2", "0">>
V12 == <<"1", "2">>
V11 == <<"1", "1">>
V18 == <<"1", "8">>

ReleaseBase ==
  "https://github.com/wezterm/wezterm/releases/download/20240203-110809-5046fc22"

Url(stem, suffix) == <<ReleaseBase, "/", stem, suffix>>

UrlMacosArm64 == Url("WezTerm-macos-20240203-110809-5046fc22", ".zip")
UrlUbuntu22Amd64 == Url("wezterm-20240203-110809-5046fc22.Ubuntu22.04", ".deb")
UrlUbuntu22Arm64 == Url("wezterm-20240203-110809-5046fc22.Ubuntu22.04.arm64", ".deb")
UrlUbuntu20Amd64 == Url("wezterm-20240203-110809-5046fc22.Ubuntu20.04", ".deb")
UrlDebian12Amd64 == Url("wezterm-20240203-110809-5046fc22.Debian12", ".deb")
UrlDebian12Arm64 == Url("wezterm-20240203-110809-5046fc22.Debian12.arm64", ".deb")
UrlDebian11Amd64 == Url("wezterm-20240203-110809-5046fc22.Debian11", ".deb")

wezterm_package_urls ==
  (T_macos :> (T_arm64 :> UrlMacosArm64))
  @@ (T_Ubuntu :>
        ((V22 :> ((T_amd64 :> UrlUbuntu22Amd64) @@ (T_arm64 :> UrlUbuntu22Arm64)))
         @@ (V20 :> (T_amd64 :> UrlUbuntu20Amd64))))
  @@ (T_Debian :>
        ((V12 :> ((T_amd64 :> UrlDebian12Amd64) @@ (T_arm64 :> UrlDebian12Arm64)))
         @@ (V11 :> (T_amd64 :> UrlDebian11Amd64))))

\* Path(url).name: the tokens after the last "/"
path_name(url) ==
  LET seps == {i \in 1..Len(url) : url[i] = "/"}
  IN  IF seps = {} THEN url ELSE SubSeq(url, SetMax(seps) + 1, Len(url))

\* -------------------------------------------------- /etc/os-release files
Rel_Ubuntu22 ==
  << <<"N", "A", "M", "E", "=", "\"", "U", "b", "u", "n", "t", "u", "\"", "\n">>,
     <<"V", "E", "R", "S", "I", "O", "N", "_", "I", "D", "=", "\"", "2", "2", ".", "0", "4", "\"", "\n">>,
     <<"I", "D", "=", "u", "b", "u", "n", "t", "u", "\n">> >>
Rel_Ubuntu20 ==
  << <<"I", "D", "=", "u", "b", "u", "n", "t", "u", "\n">>,
     <<"V", "E", "R", "S", "I", "O", "N", "_", "I", "D", "=", "\"", "2", "0", ".", "0", "4", "\"", "\n">> >>
Rel_Ubuntu18 ==
  << <<"I", "D", "=", "u", "b", "u", "n", "t", "u", "\n">>,
     <<"V", "E", "R", "S", "I", "O", "N", "_", "I", "D", "=", "\"", "1", "8", ".", "0", "4", "\"", "\n">> >>
Rel_Debian12 ==
  << <<"I", "D", "=", "d", "e", "b", "i", "a", "n", "\n">>,
     <<"V", "E", "R", "S", "I", "O", "N", "_", "I", "D", "=", "\"", "1", "2", "\"", "\n">> >>
Rel_Debian11 ==
  << <<"V", "E", "R", "S", "I", "O", "N", "_", "I", "D", "=", "\"", "1", "1", "\"", "\n">>,
     <<"I", "D", "=", "\"", "d", "e", "b", "i", "a", "n", "\"", "\n">> >>
Rel_Fedora ==
  << <<"I", "D", "=", "f", "e", "d", "o", "r", "a", "\n">>,
     <<"V", "E", "R", "S", "I", "O", "N", "_", "I", "D", "=", "3", "9", "\n">> >>
Rel_Rolling ==
  << <<"I", "D", "=", "u", "b", "u", "n", "t", "u", "\n">> >>
Rel_NoId ==
  << <<"N", "A", "M", "E", "=", "\"", "U", "b", "u", "n", "t", "u", "\"", "\n">>,
     <<"V", "E", "R", "S", "I", "O", "N", "_", "I", "D", "=", "\"", "2", "2", ".", "0", "4", "\"", "\n">> >>
Rel_NoEquals ==
  << <<"U", "b", "u", "n", "t", "u", " ", "2", "2", ".", "0", "4", "\n">> >>
Rel_Empty == <<>>

ReleaseTexts ==
  {Rel_Ubuntu22, Rel_Ubuntu20, Rel_Ubuntu18, Rel_Debian12, Rel_Debian11,
   Rel_Fedora, Rel_Rolling, Rel_NoId, Rel_NoEquals, Rel_Empty}

\* What open("/etc/os-release") and readlines() can meet: no such file, a
\* file that cannot be opened or read (OSError), bytes that do not decode
\* (UnicodeDecodeError, a ValueError), or lines of text.
ReleaseFiles ==
  {[kind |-> k, lines |-> <<>>] : k \in {"missing", "unreadable", "undecodable"}}
  \cup {[kind |-> "text", lines |-> t] : t \in ReleaseTexts}

NoReleaseFile == [kind |-> "missing", lines |-> <<>>]

Systems == {T_Darwin, T_Linux, T_Windows}

KnownMachines == {"x86_64", "AMD64", "aarch64", "arm64"}

Machines == KnownMachines \cup {"i686", "riscv64"}

\* --------------------------------------------------------- get_system_info
arch_key_amd64_default(architecture) ==
  IF architecture \in {"aarch64", "arm64"} THEN T_arm64 ELSE T_amd64

arch_key(architecture) ==
  IF architecture \in {"x86_64", "AMD64"} THEN T_amd64
  ELSE IF architecture \in {"aarch64", "arm64"} THEN T_arm64
  ELSE None

\* {key: value.strip('"') for key, value in
\*    (line.strip().split("=", 1) for line in lines if "=" in line)}
RECURSIVE parse_os_release(_)
parse_os_release(lines) ==
  IF lines = <<>> THEN EmptyDict
  ELSE LET n    == Len(lines)
           line == lines[n]
           rest == parse_os_release(SubSeq(lines, 1, n - 1))
           kv   == str_split1(str_strip(line, Whitespace), "=")
       IN  IF str_contains(line, "=")
           THEN (kv[1] :> str_strip(kv[2], {"\""})) @@ rest
           ELSE rest

Returned(os_name, os_version, arch) ==
  [raised |-> FALSE, os_name |-> os_name, os_version |-> os_version, arch |-> arch]

Raised == [raised |-> TRUE, os_name |-> None, os_version |-> None, arch |-> None]

get_system_info(system, architecture, file) ==
  LET key == arch_key(architecture)
  IN  IF system = T_Darwin THEN Returned(T_macos, None, key)
      ELSE IF system = T_Linux THEN
        CASE file.kind \in {"missing", "unreadable"} -> Returned(T_Linux, None, key)
          [] file.kind = "undecodable" -> Raised
          [] OTHER ->
               LET os_release == parse_os_release(file.lines)
                   id         == dict_get(os_release, T_ID, None)
                   version    == dict_get(os_release, T_VERSION_ID, <<>>)
               IN  IF id = None THEN Raised
                   ELSE Returned(str_capitalize(id), str_split_head(version, "."), key)
      ELSE Returned(system, None, key)

\* -------------------------------------------------------- find_download_url
find_download_url_nearest(os_name, os_version, arch, packages_dict) ==
  IF os_name = T_macos
  THEN dict_get(dict_get(packages_dict, T_macos, EmptyDict), arch, None)
  ELSE IF os_name \in {T_Ubuntu, T_Debian}
  THEN LET versions == dict_get(packages_dict, os_name, EmptyDict)
           byArch   == IF os_version \in DOMAIN versions
                       THEN versions[os_version]
                       ELSE IF DOMAIN versions = {} THEN EmptyDict
                       ELSE versions[CHOOSE v \in DOMAIN versions : TRUE]
       IN  dict_get(byArch, arch, None)
  ELSE None

find_download_url_first_arch(os_name, os_version, arch, packages_dict) ==
  IF os_name = T_macos
  THEN dict_get(dict_get(packages_dict, T_macos, EmptyDict), arch, None)
  ELSE IF os_name \in {T_Ubuntu, T_Debian}
  THEN LET byArch == dict_get(dict_get(packages_dict, os_name, EmptyDict),
                              os_version, EmptyDict)
       IN  IF arch \in DOMAIN byArch THEN byArch[T_amd64] ELSE None
  ELSE None

find_download_url(os_name, os_version, arch, packages_dict) ==
  IF os_name = T_macos
  THEN dict_get(dict_get(packages_dict, T_macos, EmptyDict), arch, None)
  ELSE IF os_name \in {T_Ubuntu, T_Debian}
  THEN dict_get(dict_get(dict_get(packages_dict, os_name, EmptyDict),
                         os_version, EmptyDict), arch, None)
  ELSE None


\* ------------------------------------------------------------------ state
VARIABLES
  system,             \* platform.system()
  machine,            \* platform.machine()
  os_release_file,    \* /etc/os-release
  git_installed,      \* shutil.which("git") finds a client
  artifact,           \* a file exists at Path.cwd() / file_name
  app_bundle,         \* /Applications/<bundle>.app exists
  config_dir,         \* ~/.config/wezterm: <<>> when absent, else its contents
  backup_dir,         \* ~/.config/wezterm.bak: <<>> when absent, else its contents
  pc,                 \* position of the running script
  run,                \* number of the current run of the script on this host
  os_name, os_version, arch, url,      \* locals of __main__
  install_successful, \* value download_and_install returns
  answer,             \* the line read by input()
  choice,             \* answer.lower()
  font_step,          \* next step of the font phase inside the try block
  exit_status,        \* process exit status, -1 while running
  fault,              \* the uncaught exception that ended the process, or "none"
  calls,              \* how often each stage has been entered in this run
  exit_path,          \* the path by which download_and_install left its try block
  download_started,   \* urlretrieve has been called for the package
  font_failed_at,     \* the font step that raised, 0 if none did
  clone_entered,      \* the clone phase has been entered in this run
  clone_ok,           \* git clone has succeeded in this run
  config_before       \* config_dir as it was when the clone phase was entered

host == <<system, machine, os_release_file, git_installed>>

files == <<artifact, app_bundle, config_dir, backup_dir>>

locals == <<os_name, os_version, arch, url, install_successful, answer, choice, font_step>>

history == <<calls, exit_path, download_started, font_failed_at, clone_entered,
             clone_ok, config_before>>

vars == <<host, files, locals, history, pc, run, exit_status, fault>>

Stages == {"detector", "resolver", "installer", "configurator", "prompt"}

NoCalls == [s \in Stages |-> 0]

Enter(stage) == [calls EXCEPT ![stage] = @ + 1]

\* The fandol_urls list has eight entries.
NumFandol == 8

\* Steps of the try block of the font phase, in order: download, extract,
\* move, rmtree and unlink for JetBrainsMono; mkdir, one download per URL,
\* move and rmtree for Fandol.
LastFontStep == 6 + NumFandol + 2

\* Lines a user can type at the prompt.
Answers ==
  {<<"y">>, <<"Y">>, <<"n">>, <<"N">>, <<>>, <<"y", "e", "s">>, <<" ", "y">>}

\* Contents that tell the generations of the configuration directory apart:
\* the old backup, the configuration found by the first run, and the
\* checkout made by run r.
OldBackup == <<0>>

OldConfig == <<1>>

Checkout(r) == <<r + 1>>

Init ==
  /\ system \in Systems
  /\ machine \in Machines
  /\ os_release_file \in ReleaseFiles
  /\ system # T_Linux => os_release_file = NoReleaseFile
  /\ git_installed \in BOOLEAN
  /\ artifact \in BOOLEAN
  /\ app_bundle \in BOOLEAN
  /\ system # T_Darwin => app_bundle = FALSE
  /\ config_dir \in {<<>>, OldConfig}
  /\ backup_dir \in {<<>>, OldBackup}
  /\ pc = "detect"
  /\ run = 1
  /\ os_name = None /\ os_version = None /\ arch = None /\ url = None
  /\ install_successful = FALSE
  /\ answer = None /\ choice = None
  /\ font_step = 0
  /\ exit_status = -1
  /\ fault = "none"
  /\ calls = NoCalls
  /\ exit_path = "none"
  /\ download_started = FALSE
  /\ font_failed_at = 0
  /\ clone_entered = FALSE
  /\ clone_ok = FALSE
  /\ config_before = <<>>

\* sys.exit(status), or falling off the end of the script (status 0)
Exit(status) ==
  /\ pc' = "exit"
  /\ exit_status' = status
  /\ fault' = "none"

\* An exception nothing catches: traceback, exit status 1
Uncaught(exception) ==
  /\ pc' = "exit"
  /\ exit_status' = 1
  /\ fault' = exception

Continue(next) ==
  /\ pc' = next
  /\ UNCHANGED <<exit_status, fault>>

\* ------------------------------------------------------------- __main__
\* os_name, os_version, arch = get_system_info()
Detect ==
  /\ pc = "detect"
  /\ calls' = Enter("detector")
  /\ LET r == get_system_info(system, machine, os_release_file)
     IN  IF r.raised
         THEN /\ Uncaught(IF os_release_file.kind = "undecodable"
                          THEN "UnicodeDecodeError" ELSE "AttributeError")
              /\ UNCHANGED <<os_name, os_version, arch>>
         ELSE /\ os_name' = r.os_name
              /\ os_version' = r.os_version
              /\ arch' = r.arch
              /\ Continue("check_arch")
  /\ UNCHANGED <<host, files, run, url, install_successful, answer, choice, font_step,
                 exit_path, download_started, font_failed_at, clone_entered,
                 clone_ok, config_before>>

\* if not arch: sys.exit(1)
CheckArch ==
  /\ pc = "check_arch"
  /\ IF Falsy(arch) THEN Exit(1) ELSE Continue("resolve")
  /\ UNCHANGED <<host, files, locals, history, run>>

\* url = find_download_url(os_name, os_version, arch, wezterm_package_urls)
Resolve ==
  /\ pc = "resolve"
  /\ calls' = Enter("resolver")
  /\ url' = find_download_url(os_name, os_version, arch, wezterm_package_urls)
  /\ Continue("check_url")
  /\ UNCHANGED <<host, files, run, os_name, os_version, arch, install_successful,
                 answer, choice, font_step, exit_path, download_started,
                 font_failed_at, clone_entered, clone_ok, config_before>>

\* if not url: sys.exit(1)
CheckUrl ==
  /\ pc = "check_url"
  /\ IF Falsy(url) THEN Exit(1) ELSE Continue("install")
  /\ UNCHANGED <<host, files, locals, history, run>>

\* ------------------------------------------------- download_and_install
\* Entry of download_and_install and the download itself.  urlretrieve opens
\* the URL before it creates the local file, so a failed download leaves
\* either nothing new or a partial file at the download path.
Download ==
  /\ pc = "install"
  /\ calls' = Enter("installer")
  /\ IF Falsy(url)
     THEN /\ install_successful' = FALSE
          /\ exit_path' = "no_url"
          /\ Continue("returned")
          /\ UNCHANGED <<artifact, download_started>>
     ELSE /\ download_started' = TRUE
          /\ \/ /\ artifact' = TRUE
                /\ Continue("dispatch")
                /\ UNCHANGED <<install_successful, exit_path>>
             \/ /\ artifact' \in {artifact, TRUE}
                /\ install_successful' = FALSE
                /\ exit_path' = "download_failed"
                /\ Continue("cleanup")
  /\ UNCHANGED <<host, app_bundle, config_dir, backup_dir, run, os_name, os_version,
                 arch, url, answer, choice, font_step, font_failed_at,
                 clone_entered, clone_ok, config_before>>

\* The outcomes of the archive branch: extractall raises, no *.app in the
\* archive, "sudo rm -rf" of an existing bundle fails, "sudo mv" fails, or
\* the bundle is moved into /Applications.
ArchiveOutcome ==
  \/ /\ exit_path' \in {"extract_failed", "missing_app"}
     /\ install_successful' = FALSE
     /\ UNCHANGED app_bundle
  \/ /\ app_bundle
     /\ exit_path' = "rm_failed"
     /\ install_successful' = FALSE
     /\ UNCHANGED app_bundle
  \/ /\ exit_path' = "mv_failed"
     /\ install_successful' = FALSE
     /\ app_bundle' = FALSE
  \/ /\ exit_path' = "installed"
     /\ install_successful' = TRUE
     /\ app_bundle' = TRUE

\* The dispatch on the file name and the host, up to the return statement
\* or the except clause.
Dispatch ==
  /\ pc = "dispatch"
  /\ LET file_name == path_name(url)
     IN  IF str_endswith(file_name, <<".deb">>)
         THEN /\ \/ exit_path' = "installed" /\ install_successful' = TRUE
                 \/ exit_path' = "package_manager_failed" /\ install_successful' = FALSE
              /\ UNCHANGED app_bundle
         ELSE IF str_endswith(file_name, <<".zip">>) /\ system = T_Darwin
         THEN ArchiveOutcome
         ELSE /\ exit_path' = "no_action"
              /\ install_successful' = TRUE
              /\ UNCHANGED app_bundle
  /\ Continue("cleanup")
  /\ UNCHANGED <<host, artifact, config_dir, backup_dir, run, os_name, os_version,
                 arch, url, answer, choice, font_step, calls, download_started,
                 font_failed_at, clone_entered, clone_ok, config_before>>

\* The finally clause without the unlink.
CleanupKeepsFile ==
  /\ pc = "cleanup"
  /\ Continue("returned")
  /\ UNCHANGED <<host, files, locals, history, run>>

\* finally: if download_path and download_path.exists(): download_path.unlink()
\* The unlink is not inside any try block: when it raises, the exception
\* leaves download_and_install and the file stays.
Cleanup ==
  /\ pc = "cleanup"
  /\ IF artifact
     THEN \/ artifact' = FALSE /\ Continue("returned")
          \/ UNCHANGED artifact /\ Uncaught("OSError")
     ELSE UNCHANGED artifact /\ Continue("returned")
  /\ UNCHANGED <<host, app_bundle, config_dir, backup_dir, locals, history, run>>

\* if install_successful: ... (otherwise the script ends)
AfterInstall ==
  /\ pc = "returned"
  /\ IF install_successful THEN Continue("prompt") ELSE Exit(0)
  /\ UNCHANGED <<host, files, locals, history, run>>

\* A prompt that accepts every answer beginning with y.
PromptPrefix ==
  /\ pc = "prompt"
  /\ calls' = Enter("prompt")
  /\ \/ \E line \in Answers :
          /\ answer' = line
          /\ choice' = str_lower(line)
          /\ IF choice' # <<>> /\ choice'[1] = "y" THEN Continue("configure") ELSE Exit(0)
     \/ /\ answer' = <<"^C">>
        /\ UNCHANGED choice
        /\ Exit(0)
     \/ /\ answer' = <<"^D">>
        /\ UNCHANGED choice
        /\ Uncaught("EOFError")
  /\ UNCHANGED <<host, files, run, os_name, os_version, arch, url, install_successful,
                 font_step, exit_path, download_started, font_failed_at,
                 clone_entered, clone_ok, config_before>>

\* choice = input(...).lower(); if choice == 'y': ... else: ...
\* except KeyboardInterrupt: ...   End of input raises EOFError, which
\* nothing catches.
Prompt ==
  /\ pc = "prompt"
  /\ calls' = Enter("prompt")
  /\ \/ \E line \in Answers :
          /\ answer' = line
          /\ choice' = str_lower(line)
          /\ IF choice' = <<"y">> THEN Continue("configure") ELSE Exit(0)
     \/ /\ answer' = <<"^C">>
        /\ UNCHANGED choice
        /\ Exit(0)
     \/ /\ answer' = <<"^D">>
        /\ UNCHANGED choice
        /\ Uncaught("EOFError")
  /\ UNCHANGED <<host, files, run, os_name, os_version, arch, url, install_successful,
                 font_step, exit_path, download_started, font_failed_at,
                 clone_entered, clone_ok, config_before>>

\* ------------------------------------------- apply_wezterm_configuration
\* Entry of apply_wezterm_configuration: the font directory is chosen, and
\* on Linux and macOS font_dir.mkdir and download_dir.mkdir run before the
\* try block, so an OSError from either leaves the function.
FontDirs ==
  /\ pc = "configure"
  /\ calls' = Enter("configurator")
  /\ IF system \in {T_Linux, T_Darwin}
     THEN \/ font_step' = 1 /\ Continue("fonts")
          \/ UNCHANGED font_step /\ Uncaught("OSError")
     ELSE UNCHANGED font_step /\ Continue("git")
  /\ UNCHANGED <<host, files, run, os_name, os_version, arch, url, install_successful,
                 answer, choice, exit_path, download_started, font_failed_at,
                 clone_entered, clone_ok, config_before>>

\* A font phase without the try block: the exception of a failing step
\* leaves apply_wezterm_configuration.
FontStepUncaught ==
  /\ pc = "fonts"
  /\ \/ /\ font_step' = font_step + 1
        /\ Continue(IF font_step = LastFontStep THEN "git" ELSE "fonts")
        /\ UNCHANGED font_failed_at
     \/ /\ font_failed_at' = font_step
        /\ UNCHANGED font_step
        /\ Uncaught("Exception")
  /\ UNCHANGED <<host, files, run, os_name, os_version, arch, url, install_successful,
                 answer, choice, calls, exit_path, download_started,
                 clone_entered, clone_ok, config_before>>

\* One step of the try block of the font phase.  The step either completes
\* and the next one follows, or raises and the except clause ends the phase.
FontStep ==
  /\ pc = "fonts"
  /\ \/ /\ font_step' = font_step + 1
        /\ Continue(IF font_step = LastFontStep THEN "git" ELSE "fonts")
        /\ UNCHANGED font_failed_at
     \/ /\ font_failed_at' = font_step
        /\ UNCHANGED font_step
        /\ Continue("git")
  /\ UNCHANGED <<host, files, run, os_name, os_version, arch, url, install_successful,
                 answer, choice, calls, exit_path, download_started,
                 clone_entered, clone_ok, config_before>>

\* if shutil.which("git"): ... else: ...
GitCheck ==
  /\ pc = "git"
  /\ IF git_installed
     THEN /\ clone_entered' = TRUE
          /\ config_before' = config_dir
          /\ Continue("backup")
     ELSE /\ UNCHANGED <<clone_entered, config_before>>
          /\ Continue("finish")
  /\ UNCHANGED <<host, files, locals, run, calls, exit_path, download_started,
                 font_failed_at, clone_ok>>

\* shutil.move(src, dst): dst takes the contents of src; when dst is an
\* existing directory src is moved inside it, next to what dst holds.
shutil_move(src, dst) == IF dst = <<>> THEN src ELSE dst \o src

\* The backup without the rmtree of the previous backup.
BackupKeepsOld ==
  /\ pc = "backup"
  /\ IF config_dir # <<>>
     THEN \/ /\ backup_dir' = shutil_move(config_dir, backup_dir)
             /\ config_dir' = <<>>
             /\ Continue("clone")
          \/ /\ UNCHANGED <<config_dir, backup_dir>>
             /\ Continue("finish")
     ELSE /\ UNCHANGED <<config_dir, backup_dir>>
          /\ Continue("clone")
  /\ UNCHANGED <<host, artifact, app_bundle, locals, history, run>>

\* if config_dir.exists(): remove the previous backup if there is one, then
\* move config_dir to backup_dir.  rmtree or move may raise; the except
\* clause of the clone phase then ends the phase.  A failed rmtree leaves
\* the previous backup, a failed move after the rmtree leaves no backup.
Backup ==
  /\ pc = "backup"
  /\ IF config_dir # <<>>
     THEN \/ /\ backup_dir' = shutil_move(config_dir, <<>>)
             /\ config_dir' = <<>>
             /\ Continue("clone")
          \/ /\ backup_dir # <<>>
             /\ UNCHANGED <<config_dir, backup_dir>>
             /\ Continue("finish")
          \/ /\ backup_dir' = <<>>
             /\ UNCHANGED config_dir
             /\ Continue("finish")
     ELSE /\ UNCHANGED <<config_dir, backup_dir>>
          /\ Continue("clone")
  /\ UNCHANGED <<host, artifact, app_bundle, locals, history, run>>

\* subprocess.run(["git", "clone", repo_url, str(config_dir)], check=True)
Clone ==
  /\ pc = "clone"
  /\ \/ /\ config_dir = <<>>
        /\ config_dir' = Checkout(run)
        /\ clone_ok' = TRUE
     \/ UNCHANGED <<config_dir, clone_ok>>
  /\ Continue("finish")
  /\ UNCHANGED <<host, artifact, app_bundle, backup_dir, locals, run, calls, exit_path,
                 download_started, font_failed_at, clone_entered, config_before>>

\* The closing messages; apply_wezterm_configuration returns and the script ends.
Finish ==
  /\ pc = "finish"
  /\ Exit(0)
  /\ UNCHANGED <<host, files, locals, history, run>>

\* The user runs the script again on the same host.
Rerun ==
  /\ pc = "exit"
  /\ run < MaxRuns
  /\ run' = run + 1
  /\ pc' = "detect"
  /\ os_name' = None /\ os_version' = None /\ arch' = None /\ url' = None
  /\ install_successful' = FALSE
  /\ answer' = None /\ choice' = None
  /\ font_step' = 0
  /\ exit_status' = -1
  /\ fault' = "none"
  /\ calls' = NoCalls
  /\ exit_path' = "none"
  /\ download_started' = FALSE
  /\ font_failed_at' = 0
  /\ clone_entered' = FALSE
  /\ clone_ok' = FALSE
  /\ config_before' = <<>>
  /\ UNCHANGED <<host, files>>

Next ==
  \/ Detect
  \/ CheckArch
  \/ Resolve
  \/ CheckUrl
  \/ Download
  \/ Dispatch
  \/ Cleanup
  \/ AfterInstall
  \/ Prompt
  \/ FontDirs
  \/ FontStep
  \/ GitCheck
  \/ Backup
  \/ Clone
  \/ Finish
  \/ Rerun

Spec == Init /\ [][Next]_vars

\* ------------------------------------------ the resolver on arbitrary keys
\* find_download_url applied to every platform key over the families,
\* versions and architectures below, whether or not a host can report it.
T_Fedora == <<"F", "e", "d", "o", "r", "a">>

T_Macos == <<"M", "a", "c", "o", "s">>

LookupFamilies == {T_macos, T_Ubuntu, T_Debian, T_Linux, T_Windows, T_Fedora, T_Macos}

LookupVersions == {None, <<>>, V22, V20, V18, V12, V11}

LookupArchs == {T_amd64, T_arm64, None}

LookupInit ==
  /\ system = T_Linux
  /\ machine = "x86_64"
  /\ os_release_file = NoReleaseFile
  /\ git_installed = FALSE
  /\ artifact = FALSE
  /\ app_bundle = FALSE
  /\ config_dir = <<>>
  /\ backup_dir = <<>>
  /\ pc = "resolve"
  /\ run = 1
  /\ os_name \in LookupFamilies
  /\ os_version \in LookupVersions
  /\ arch \in LookupArchs
  /\ url = None
  /\ install_successful = FALSE
  /\ answer = None /\ choice = None
  /\ font_step = 0
  /\ exit_status = -1
  /\ fault = "none"
  /\ calls = NoCalls
  /\ exit_path = "none"
  /\ download_started = FALSE
  /\ font_failed_at = 0
  /\ clone_entered = FALSE
  /\ clone_ok = FALSE
  /\ config_before = <<>>

LookupSpec == LookupInit /\ [][Resolve]_vars

\* The catalogue read directly: which keys have an entry, and the entry.
HasEntry(family, version, architecture) ==
  IF family = T_macos
  THEN architecture \in DOMAIN wezterm_package_urls[T_macos]
  ELSE /\ family \in {T_Ubuntu, T_Debian}
       /\ version \in DOMAIN wezterm_package_urls[family]
       /\ architecture \in DOMAIN wezterm_package_urls[family][version]

EntryOf(family, version, architecture) ==
  IF family = T_macos
  THEN wezterm_package_urls[T_macos][architecture]
  ELSE wezterm_package_urls[family][version][architecture]

\* ----------------------------------------------------------------- claims
\* download_and_install has returned to __main__ in this run.
InstallerReturned ==
  /\ calls["installer"] = 1
  /\ pc \notin {"dispatch", "cleanup"}
  /\ ~(pc = "exit" /\ fault = "OSError" /\ calls["prompt"] = 0)

\* C1: once download_and_install has returned, by whichever exit path, no
\* file exists at the download path; after a failed download it has
\* returned False.
C1_NoArtifactAfterReturn ==
  InstallerReturned /\ exit_path # "no_url" =>
    /\ ~artifact
    /\ (exit_path = "download_failed" => install_successful = FALSE)

C1_Witness ==
  /\ InstallerReturned
  /\ exit_path = "download_failed"
  /\ install_successful = FALSE
  /\ ~artifact

\* C2: for every platform key that has an entry in the catalogue, the
\* resolver returns exactly the URL stored at that entry.
C2_ResolverReturnsEntry ==
  pc = "check_url" /\ HasEntry(os_name, os_version, arch) =>
    /\ url = EntryOf(os_name, os_version, arch)
    /\ url # None

C2_Witness ==
  /\ pc = "check_url"
  /\ os_name = T_Ubuntu /\ os_version = V22 /\ arch = T_arm64
  /\ url = UrlUbuntu22Arm64

\* C3: for every platform key without an entry in the catalogue (another
\* family, an unlisted or absent version, an unlisted architecture) the
\* resolver returns None; no other version is substituted.
C3_ResolverNotFound ==
  pc = "check_url" /\ ~HasEntry(os_name, os_version, arch) => url = None

C3_Witness ==
  /\ pc = "check_url"
  /\ os_name = T_Ubuntu /\ os_version = V18 /\ arch = T_amd64
  /\ url = None

\* C4: on a host whose machine string is none of x86_64, AMD64, aarch64,
\* arm64, the architecture get_system_info returns is None whatever the
\* system, the script never reaches download_and_install, no download is
\* started, and the process ends with a non-zero status.
C4_UnknownArchStops ==
  machine \notin KnownMachines =>
    /\ arch = None
    /\ pc \in {"detect", "check_arch", "exit"}
    /\ calls["installer"] = 0
    /\ ~download_started
    /\ (pc = "exit" => exit_status # 0)

C4_Witness ==
  /\ machine = "riscv64"
  /\ system = T_Darwin
  /\ pc = "exit"
  /\ exit_status = 1
  /\ fault = "none"

\* C5: the process ends with a non-zero status when the architecture is
\* unresolved, with a non-zero status when the catalogue has no entry for
\* the resolved platform, and with status zero in every other run.
C5_ExitStatusContract ==
  pc = "exit" =>
    IF arch_key(machine) = None THEN exit_status # 0
    ELSE IF calls["resolver"] = 1 /\ Falsy(url) THEN exit_status # 0
    ELSE exit_status = 0

\* C6: no fault raised in download_and_install or in
\* apply_wezterm_configuration, and none at the prompt other than the
\* interrupt, which is caught, reaches the process boundary.
C6_NoFaultEscapes ==
  calls["installer"] = 1 => fault = "none"

\* C7: at most one backup generation ever exists, and when the
\* configuration directory existed on entry to the clone phase and the
\* clone succeeded, the backup directory exists and holds exactly what the
\* configuration directory held.
C7_SingleBackup ==
  /\ Len(backup_dir) <= 1
  /\ (clone_ok /\ config_before # <<>> =>
        /\ backup_dir # <<>>
        /\ backup_dir = config_before)

C7_Witness ==
  /\ run = 2
  /\ clone_ok
  /\ config_before = Checkout(1)
  /\ backup_dir = Checkout(1)
  /\ config_dir = Checkout(2)

\* An os-release file that is text but has no ID entry (in particular one
\* with no line containing "=").
Malformed(file) ==
  /\ file.kind = "text"
  /\ T_ID \notin DOMAIN parse_os_release(file.lines)

\* C8: on Linux, when /etc/os-release is missing, unreadable or malformed,
\* get_system_info does not raise and returns ("Linux", None, arch_key).
C8_OsReleaseFallback ==
  /\ system = T_Linux
  /\ calls["detector"] = 1
  /\ \/ os_release_file.kind \in {"missing", "unreadable"}
     \/ Malformed(os_release_file)
  => /\ fault = "none"
     /\ os_name = T_Linux
     /\ os_version = None
     /\ arch = arch_key(machine)

\* C9: once a step of the font phase has raised, no later font step runs,
\* and when a git client is present the clone phase is entered next.
C9_FontFailureKeepsClone ==
  font_failed_at # 0 =>
    /\ font_step = font_failed_at
    /\ (git_installed => pc = "git" \/ clone_entered)

C9_Witness ==
  /\ font_failed_at = 2
  /\ clone_entered
  /\ pc = "exit"

\* C10: every stage is entered at most once per run and in the order
\* detector, resolver, installer, prompt, configurator; the prompt is shown
\* only after the installer returned True; the configurator starts only
\* after the answer y or Y; after any other answer, or an interrupt at the
\* prompt, the configurator does not start and the process ends with
\* status zero.
C10_StageOrder ==
  /\ \A s \in Stages : calls[s] <= 1
  /\ (calls["resolver"] = 1 => calls["detector"] = 1)
  /\ (calls["installer"] = 1 => calls["resolver"] = 1)
  /\ (calls["prompt"] = 1 => InstallerReturned /\ install_successful)
  /\ (InstallerReturned /\ ~install_successful => calls["prompt"] = 0)
  /\ (calls["configurator"] = 1 \/ pc = "configure" =>
        /\ calls["prompt"] = 1
        /\ install_successful
        /\ answer \in {<<"y">>, <<"Y">>})
  /\ (calls["prompt"] = 1 /\ answer \notin {<<"y">>, <<"Y">>, <<"^D">>} =>
        /\ calls["configurator"] = 0
        /\ pc = "exit"
        /\ exit_status = 0
        /\ fault = "none")

C10_Witness ==
  /\ calls["configurator"] = 1
  /\ answer = <<"Y">>
  /\ pc = "exit"
  /\ exit_status = 0

=============================================================================
